---- MODULE Spec2Model ----
(***************************************************************************)
(* A model of pylings.exercises.ExerciseManager: the per-exercise          *)
(* execution strategy (direct run, test-validated run and their            *)
(* reconciliation), the concurrent batch evaluation that restores input    *)
(* order, and the state and progress tracker (cursor, completed_count,     *)
(* completed_flag, reset from backup).                                     *)
(*                                                                         *)
(* Text (stdout, stderr, messages) is a sequence of tokens.  The tokens    *)
(* the code looks for ("[", "\n", "FAILED ", " - ", "::", ...) are single  *)
(* tokens; any other token stands for a run of ordinary characters.        *)
(* A path is the sequence of its segments (pathlib's Path.parts).          *)
(***************************************************************************)
EXTENDS Integers, Sequences, FiniteSets, TLC

(***************************************************************************)
(* Text helpers (Python str operations on token sequences)                 *)
(***************************************************************************)

\* s.index(tok): the first position of tok in s, 0 when absent
RECURSIVE IndexFrom(_, _, _)
IndexFrom(s, tok, i) ==
    IF i > Len(s) THEN 0
    ELSE IF s[i] = tok THEN i
    ELSE IndexFrom(s, tok, i + 1)

IndexOf(s, tok) == IndexFrom(s, tok, 1)

\* tok in s
HasTok(s, tok) == IndexOf(s, tok) # 0

\* the last position of tok in s, 0 when absent
RECURSIVE LastIndexFrom(_, _, _)
LastIndexFrom(s, tok, i) ==
    IF i = 0 THEN 0
    ELSE IF s[i] = tok THEN i
    ELSE LastIndexFrom(s, tok, i - 1)

\* s[a:b] of Python with 0-based a, b already converted: tokens a..b (1-based, inclusive)
Slice(s, a, b) == IF a > b THEN <<>> ELSE SubSeq(s, a, b)

Whitespace == {" ", "\n"}

\* s.lstrip() / s.rstrip() / s.strip()
RECURSIVE LStrip(_)
LStrip(s) ==
    IF s # <<>> /\ Head(s) \in Whitespace THEN LStrip(Tail(s)) ELSE s

RECURSIVE RStrip(_)
RStrip(s) ==
    IF s # <<>> /\ s[Len(s)] \in Whitespace
    THEN RStrip(SubSeq(s, 1, Len(s) - 1))
    ELSE s

Strip(s) == RStrip(LStrip(s))

\* s.replace(tok, '')
RECURSIVE RemoveTok(_, _)
RemoveTok(s, tok) ==
    IF s = <<>> THEN <<>>
    ELSE IF Head(s) = tok THEN RemoveTok(Tail(s), tok)
    ELSE <<Head(s)>> \o RemoveTok(Tail(s), tok)

\* s.split(sep): the list of the pieces between the occurrences of sep
RECURSIVE SplitOn(_, _)
SplitOn(s, sep) ==
    LET i == IndexOf(s, sep)
    IN  IF i = 0 THEN <<s>>
        ELSE <<SubSeq(s, 1, i - 1)>> \o SplitOn(SubSeq(s, i + 1, Len(s)), sep)

\* sep.join(parts)
RECURSIVE JoinWith(_, _)
JoinWith(parts, sep) ==
    IF parts = <<>> THEN <<>>
    ELSE IF Len(parts) = 1 THEN parts[1]
    ELSE parts[1] \o <<sep>> \o JoinWith(Tail(parts), sep)

\* sub in s (contiguous)
IsSubstring(sub, s) ==
    \E i \in 0..(Len(s) - Len(sub)) : SubSeq(s, i + 1, i + Len(sub)) = sub

\* s.split(): the whitespace-separated words of s
RECURSIVE Words(_)
Words(s) ==
    LET t == LStrip(s)
    IN  IF t = <<>> THEN <<>>
        ELSE LET n == CHOOSE k \in 1..Len(t) :
                        /\ \A j \in 1..k : t[j] \notin Whitespace
                        /\ (k = Len(t) \/ t[k + 1] \in Whitespace)
             IN  <<SubSeq(t, 1, n)>> \o Words(SubSeq(t, n + 1, Len(t)))

(***************************************************************************)
(* _format_output: every "[" becomes "\[" (Rich markup escaping)           *)
(***************************************************************************)

RECURSIVE _format_output(_)
_format_output(output) ==
    IF output = <<>> THEN <<>>
    ELSE IF Head(output) = "[" THEN <<"\\", "[">> \o _format_output(Tail(output))
    ELSE <<Head(output)>> \o _format_output(Tail(output))

(***************************************************************************)
(* _extract_test_error: the message built from the validation runner's     *)
(* output, line by line                                                    *)
(***************************************************************************)

GenericTestsFailed == <<"Tests failed. Check your code matches the requirements.">>

\* str.isdigit() on a word: non-empty, digits only
DigitToks == {"0", "1", "2", "3", "4", "5", "6", "7", "8", "9", "12", "42"}

IsDigit(w) == w # <<>> /\ \A i \in 1..Len(w) : w[i] \in DigitToks

\* w.strip(',')
RECURSIVE StripCommas(_)
StripCommas(w) ==
    IF w # <<>> /\ Head(w) = "," THEN StripCommas(Tail(w))
    ELSE IF w # <<>> /\ w[Len(w)] = "," THEN StripCommas(SubSeq(w, 1, Len(w) - 1))
    ELSE w

\* lines 240-251: a FAILED / ERROR summary line
SummaryLine(errors, line) ==
    LET i == IndexOf(line, " - ")
    IN  IF i = 0 THEN errors
        ELSE LET prefix     == line[1]
                 test_path  == Strip(RemoveTok(SubSeq(line, 1, i - 1), prefix))
                 error_desc == Strip(SubSeq(line, i + 1, Len(line)))
             IN  IF HasTok(test_path, "::")
                 THEN LET k == LastIndexFrom(test_path, "::", Len(test_path))
                          test_name == SubSeq(test_path, k + 1, Len(test_path))
                      IN  Append(errors, test_name \o <<": ">> \o error_desc)
                 ELSE Append(errors, error_desc)

\* lines 253-256: an assertion-detail line
AssertionLine(errors, line) ==
    LET k == IndexOf(line, "AssertionError:")
        error_detail == Strip(SubSeq(line, k + 1, Len(line)))
    IN  IF /\ error_detail # <<>>
           /\ ~ \E j \in 1..Len(errors) : IsSubstring(error_detail, errors[j])
        THEN Append(errors, <<"  ">> \o error_detail)
        ELSE errors

\* lines 258-267: a traceback line naming a file of the exercise tree
LocationLine(errors, line) ==
    LET start == IndexOf(line, "exercises/")
        end   == IndexOf(line, ", line ")
        file_part == Slice(line, start, end - 1)
        words == Words(SubSeq(line, end + 1, Len(line)))
    IN  IF words = <<>> THEN errors
        ELSE LET line_part == StripCommas(words[1])
             IN  IF IsDigit(line_part)
                 THEN Append(errors, <<"  at ">> \o file_part \o <<":">> \o line_part)
                 ELSE errors

ExtractLine(errors, line) ==
    IF line # <<>> /\ line[1] \in {"FAILED ", "ERROR "}
    THEN SummaryLine(errors, line)
    ELSE IF /\ Strip(line) # <<>>
            /\ Strip(line)[1] = "E "
            /\ HasTok(line, "AssertionError:")
    THEN AssertionLine(errors, line)
    ELSE IF HasTok(line, "File \"") /\ HasTok(line, "exercises/") /\ HasTok(line, ", line ")
    THEN LocationLine(errors, line)
    ELSE errors

RECURSIVE ExtractLines(_, _)
ExtractLines(errors, lines) ==
    IF lines = <<>> THEN errors
    ELSE ExtractLines(ExtractLine(errors, Head(lines)), Tail(lines))

_extract_test_error(pytest_output) ==
    LET errors == ExtractLines(<<>>, SplitOn(pytest_output, "\n"))
    IN  IF errors # <<>> THEN JoinWith(errors, "\n") ELSE GenericTestsFailed

(***************************************************************************)
(* Paths (constants.py) and the files the evaluation reads                 *)
(***************************************************************************)

None == <<>>

BASE_DIR == <<"/", "ws">>

PACKAGE_DIR == <<"/", "pkg", "pylings">>

EXERCISES_DIR == BASE_DIR \o <<"exercises">>

TESTS_DIR == PACKAGE_DIR \o <<"tests">>

BACKUP_DIR == PACKAGE_DIR \o <<"backups">>

\* pathlib's a / b: an absolute b replaces a
JoinPath(a, b) == IF b # <<>> /\ b[1] = "/" THEN b ELSE a \o b

\* path.name
NameOf(path) == IF path = <<>> THEN "" ELSE path[Len(path)]

\* path.relative_to(base) for a path under base
RelativeTo(path, base) == SubSeq(path, Len(base) + 1, Len(path))

\* the validation tests shipped with the package (TESTS_DIR/<topic>/test_<name>)
TestFiles ==
    { TESTS_DIR \o <<"t1", "test_a.py">>,
      TESTS_DIR \o <<"t1", "test_b.py">> }

\* f"test_{exercise_name}"
TestName(exercise_name) ==
    CASE exercise_name = "a.py" -> "test_a.py"
      [] exercise_name = "b.py" -> "test_b.py"
      [] exercise_name = "c.py" -> "test_c.py"
      [] OTHER -> "test_"

(***************************************************************************)
(* _get_test_path                                                          *)
(***************************************************************************)

\* the bug of not asking whether the test file exists
_get_test_path_unchecked(exercise_path) ==
    LET relative_parts ==
            IF HasTok(exercise_path, "exercises")
            THEN SubSeq(exercise_path, IndexOf(exercise_path, "exercises") + 1,
                        Len(exercise_path))
            ELSE <<NameOf(exercise_path)>>
    IN  IF Len(relative_parts) >= 2
        THEN TESTS_DIR \o <<relative_parts[1],
                            TestName(relative_parts[Len(relative_parts)])>>
        ELSE None

_get_test_path(exercise_path) ==
    LET path_parts == exercise_path
        relative_parts ==
            IF HasTok(path_parts, "exercises")
            THEN SubSeq(path_parts, IndexOf(path_parts, "exercises") + 1, Len(path_parts))
            ELSE <<NameOf(exercise_path)>>
    IN  IF Len(relative_parts) >= 2
        THEN LET topic == relative_parts[1]
                 exercise_name == relative_parts[Len(relative_parts)]
                 test_path == TESTS_DIR \o <<topic, TestName(exercise_name)>>
             IN  IF test_path \in TestFiles THEN test_path ELSE None
        ELSE None

(***************************************************************************)
(* What running a file does, as far as the manager can observe it: the     *)
(* outcome of the direct run, the outcome of the validation run, and       *)
(* whether resolving the paths faults (run_exercise raises).               *)
(***************************************************************************)

TimedOutMsg == <<"Exercise timed out.">>

\* subprocess.CompletedProcess
CompletedProcess(args, returncode, stdout, stderr) ==
    [args |-> args, returncode |-> returncode, stdout |-> stdout, stderr |-> stderr]

DirectExit(rc, out, err) == [kind |-> "exit", rc |-> rc, out |-> out, err |-> err]

DirectTimeout(out, err) == [kind |-> "timeout", rc |-> 0, out |-> out, err |-> err]

DirectError(msg) == [kind |-> "error", rc |-> 0, out |-> <<>>, err |-> msg]

ValidationExit(rc, out) == [kind |-> "exit", rc |-> rc, out |-> out]

ValidationTimeout == [kind |-> "timeout", rc |-> 0, out |-> <<>>]

ValidationError(msg) == [kind |-> "error", rc |-> 0, out |-> msg]

Content(fault, validation, direct) ==
    [fault |-> fault, validation |-> validation, direct |-> direct]

(***************************************************************************)
(* _run_exercise_directly                                                  *)
(***************************************************************************)

\* the bug of reporting a timed-out process's own stderr
_run_exercise_directly_partial(exercise_path, content) ==
    LET d == content.direct
    IN  CASE d.kind = "exit" ->
                CompletedProcess(<<exercise_path>>, d.rc, d.out, d.err)
          [] d.kind = "timeout" ->
                CompletedProcess(<<exercise_path>>, 1, d.out, d.err)
          [] OTHER ->
                CompletedProcess(<<exercise_path>>, 1, <<>>, d.err)

_run_exercise_directly(exercise_path, content) ==
    LET d == content.direct
    IN  CASE d.kind = "exit" ->
                CompletedProcess(<<exercise_path>>, d.rc, d.out, d.err)
          [] d.kind = "timeout" ->
                CompletedProcess(<<exercise_path>>, 1, d.out, TimedOutMsg)
          [] OTHER ->
                CompletedProcess(<<exercise_path>>, 1, <<>>, d.err)

(***************************************************************************)
(* _run_with_tests: the result and the subprocesses it started             *)
(***************************************************************************)

\* what one evaluation did: the result (when it did not raise) and the runs started
Evaluation(raised, result, ran_tests, ran_direct) ==
    [raised |-> raised, result |-> result,
     ran_tests |-> ran_tests, ran_direct |-> ran_direct]

NoResult == CompletedProcess(<<>>, 1, <<>>, <<>>)

\* the tail of _run_with_tests (lines 203-222) with one rule changed:
\* "ungated" lets a direct exit 0 pass without the validation, "feedback" puts
\* the validation feedback before the direct run's own error, "raw" reports
\* the validation runner's output as it is
Reconcile_variant(variant, exercise_path, v, direct_result) ==
    IF (variant = "ungated" \/ v.rc = 0) /\ direct_result.returncode = 0
    THEN Evaluation(FALSE,
            CompletedProcess(<<exercise_path>>, 0, direct_result.stdout, <<>>),
            TRUE, TRUE)
    ELSE IF direct_result.returncode # 0 /\ variant # "feedback"
    THEN Evaluation(FALSE, direct_result, TRUE, TRUE)
    ELSE Evaluation(FALSE,
            CompletedProcess(<<exercise_path>>, 1, <<>>,
                IF variant = "raw" THEN v.out ELSE _extract_test_error(v.out)),
            TRUE, TRUE)

RunWithTests_variant(variant, exercise_path, content) ==
    CASE content.validation.kind = "timeout" ->
            Evaluation(FALSE,
                CompletedProcess(<<exercise_path>>, 1, <<>>, TimedOutMsg),
                TRUE, FALSE)
      [] content.validation.kind = "error" ->
            Evaluation(FALSE,
                CompletedProcess(<<exercise_path>>, 1, <<>>,
                                 <<"Error running tests: ">> \o content.validation.out),
                TRUE, FALSE)
      [] OTHER ->
            Reconcile_variant(variant, exercise_path, content.validation,
                              _run_exercise_directly(exercise_path, content))

_run_with_tests_ungated(exercise_path, test_path, content) ==
    RunWithTests_variant("ungated", exercise_path, content)

_run_with_tests_feedback(exercise_path, test_path, content) ==
    RunWithTests_variant("feedback", exercise_path, content)

_run_with_tests_raw(exercise_path, test_path, content) ==
    RunWithTests_variant("raw", exercise_path, content)

_run_with_tests(exercise_path, test_path, content) ==
    LET v == content.validation
        tests_pass == v.rc = 0
        direct_result == _run_exercise_directly(exercise_path, content)
    IN  CASE v.kind = "timeout" ->
                Evaluation(FALSE,
                    CompletedProcess(<<exercise_path>>, 1, <<>>, TimedOutMsg),
                    TRUE, FALSE)
          [] v.kind = "error" ->
                Evaluation(FALSE,
                    CompletedProcess(<<exercise_path>>, 1, <<>>,
                                     <<"Error running tests: ">> \o v.out),
                    TRUE, FALSE)
          [] OTHER ->
                IF tests_pass /\ direct_result.returncode = 0
                THEN Evaluation(FALSE,
                        CompletedProcess(<<exercise_path>>, 0, direct_result.stdout, <<>>),
                        TRUE, TRUE)
                ELSE IF direct_result.returncode # 0
                THEN Evaluation(FALSE, direct_result, TRUE, TRUE)
                ELSE Evaluation(FALSE,
                        CompletedProcess(<<exercise_path>>, 1, <<>>,
                                         _extract_test_error(v.out)),
                        TRUE, TRUE)

(***************************************************************************)
(* run_exercise (source = "workspace")                                     *)
(***************************************************************************)

\* the bug of letting a failure to start the process escape as an exception
run_exercise_unguarded(path, content) ==
    LET path_parts == IF path[1] = "exercises" THEN Tail(path) ELSE path
        exercise_path == JoinPath(BASE_DIR \o <<"exercises">>, path_parts)
        test_path == _get_test_path(exercise_path)
    IN  IF content.fault \/ content.direct.kind = "error"
        THEN Evaluation(TRUE, NoResult, FALSE, FALSE)
        ELSE IF test_path = None
        THEN Evaluation(FALSE, _run_exercise_directly(exercise_path, content), FALSE, TRUE)
        ELSE _run_with_tests(exercise_path, test_path, content)

run_exercise(path, content) ==
    LET path_parts == IF path[1] = "exercises" THEN Tail(path) ELSE path
        exercise_path == JoinPath(BASE_DIR \o <<"exercises">>, path_parts)
        test_path == _get_test_path(exercise_path)
    IN  IF content.fault
        THEN Evaluation(TRUE, NoResult, FALSE, FALSE)
        ELSE IF test_path = None
        THEN Evaluation(FALSE, _run_exercise_directly(exercise_path, content), FALSE, TRUE)
        ELSE _run_with_tests(exercise_path, test_path, content)

(***************************************************************************)
(* The exercise files of the model and what they can do when run           *)
(***************************************************************************)

Traceback == <<"Traceback ", "[", "x">>

StdoutOk == <<"[", "ok">>

PytestFailed == <<"FAILED ", "t.py", "::", "test_a", " - ", "assert ", "[", "1">>

\* a solved exercise: the validation passes and the script prints and exits 0
Solved == Content(FALSE, ValidationExit(0, <<>>), DirectExit(0, StdoutOk, <<>>))

\* an unsolved exercise: the validation fails and the script dies with a traceback
Broken == Content(FALSE, ValidationExit(1, PytestFailed), DirectExit(1, <<>>, Traceback))

\* an exercise whose evaluation faults before any process is started
Faulty == Content(TRUE, ValidationExit(1, <<>>), DirectExit(1, <<>>, <<>>))

\* python on a script that does not exist: exit code 2
MissingFile ==
    Content(FALSE, ValidationExit(1, <<>>), DirectExit(2, <<>>, <<"can't open file">>))

Contents == {Solved, Broken}

ExercisePaths ==
    { EXERCISES_DIR \o <<"t1", "a.py">>,
      EXERCISES_DIR \o <<"t1", "b.py">>,
      EXERCISES_DIR \o <<"t2", "a.py">> }

ContentOf(fs, path) == IF path \in DOMAIN fs THEN fs[path] ELSE MissingFile

\* the order of path segments under sorted()
SegOrder == <<"/", "a.py", "b.py", "c.py", "exercises", "t1", "t2", "ws">>

SegRank(seg) == IndexOf(SegOrder, seg)

RECURSIVE PathLess(_, _)
PathLess(p, q) ==
    IF q = <<>> THEN FALSE
    ELSE IF p = <<>> THEN TRUE
    ELSE IF Head(p) = Head(q) THEN PathLess(Tail(p), Tail(q))
    ELSE SegRank(Head(p)) < SegRank(Head(q))

\* the bug of listing the files in descending order
RECURSIVE SortedPaths_descending(_)
SortedPaths_descending(S) ==
    IF S = {} THEN <<>>
    ELSE LET last == CHOOSE p \in S : \A q \in S \ {p} : PathLess(q, p)
         IN  <<last>> \o SortedPaths_descending(S \ {last})

\* sorted(EXERCISES_DIR.rglob("*.py"))
RECURSIVE SortedPaths(_)
SortedPaths(S) ==
    IF S = {} THEN <<>>
    ELSE LET least == CHOOSE p \in S : \A q \in S \ {p} : PathLess(p, q)
         IN  <<least>> \o SortedPaths(S \ {least})

(***************************************************************************)
(* The exercises dict: an insertion-ordered list of entries keyed by name  *)
(***************************************************************************)

NoError == [set |-> FALSE, text |-> <<>>]

SomeError(text) == [set |-> TRUE, text |-> text]

\* ConfigManager.get_hint: a static text per path
get_hint(path) == <<"hint ", NameOf(path)>>

\* the position of the entry named name, 0 when there is none
EntryIndex(exs, name) ==
    IF \E i \in 1..Len(exs) : exs[i].name = name
    THEN CHOOSE i \in 1..Len(exs) : exs[i].name = name
    ELSE 0

StatusOf(result) == IF result.returncode = 0 THEN "DONE" ELSE "PENDING"

\* result.stderr if result.stderr else result.stdout
ErrorOutput(result) == IF result.stderr # <<>> THEN result.stderr ELSE result.stdout

_store_result(exs, path, result) ==
    LET name == NameOf(path)
        entry == [name   |-> name,
                  path   |-> path,
                  status |-> StatusOf(result),
                  output |-> IF result.returncode = 0
                             THEN _format_output(result.stdout) ELSE <<>>,
                  error  |-> IF result.returncode # 0
                             THEN SomeError(_format_output(ErrorOutput(result)))
                             ELSE NoError,
                  hint   |-> get_hint(path)]
        i == EntryIndex(exs, name)
    IN  IF i = 0 THEN Append(exs, entry) ELSE [exs EXCEPT ![i] = entry]

\* the bug of deleting the entry and inserting the updated one at the end
_update_exercise_status_moved(exs, name, result) ==
    LET i == EntryIndex(exs, name)
        entry == [exs[i] EXCEPT
                    !.status = StatusOf(result),
                    !.output = IF result.returncode = 0
                               THEN _format_output(result.stdout) ELSE <<>>,
                    !.error  = IF result.returncode # 0
                               THEN SomeError(_format_output(ErrorOutput(result)))
                               ELSE NoError]
    IN  Append(SubSeq(exs, 1, i - 1) \o SubSeq(exs, i + 1, Len(exs)), entry)

\* the bug of changing the status alone, the output and error left as they were
_update_exercise_status_stale(exs, name, result) ==
    [exs EXCEPT ![EntryIndex(exs, name)] = [@ EXCEPT !.status = StatusOf(result)]]

\* requires an entry named name (the callers raise KeyError otherwise)
_update_exercise_status(exs, name, result) ==
    LET i == EntryIndex(exs, name)
    IN  [exs EXCEPT ![i].status = StatusOf(result),
                    ![i].output = IF result.returncode = 0
                                  THEN _format_output(result.stdout) ELSE <<>>,
                    ![i].error  = IF result.returncode # 0
                                  THEN SomeError(_format_output(ErrorOutput(result)))
                                  ELSE NoError]

\* sum(1 for ex in self.exercises.values() if ex["status"] == "DONE")
CountDone(exs) == Cardinality({i \in 1..Len(exs) : exs[i].status = "DONE"})

(***************************************************************************)
(* Return values of the lookup operations                                  *)
(***************************************************************************)

\* an operation returned None
NoValue == [kind |-> "None"]

\* get_solution's (solution_path, local_path)
SolutionPair(solution_path, local_path) ==
    [kind |-> "pair", solution_path |-> solution_path, local_path |-> local_path]

\* print_root_solution's CompletedProcess
ProcessValue(result) == [kind |-> "process", result |-> result]

(***************************************************************************)
(* State                                                                   *)
(***************************************************************************)

VARIABLES
    exercises,               \* self.exercises: the entries in insertion order
    current_exercise,        \* self.current_exercise: a path, or None
    current_exercise_state,  \* self.current_exercise_state
    arg_exercise,            \* self.arg_exercise: a path, or None
    completed_count,         \* self.completed_count
    completed_flag,          \* self.completed_flag
    watcher,                 \* self.watcher is attached
    show_hint,               \* self.show_hint
    lasttime,                \* the configuration's persisted last exercise
    watched,                 \* the path of the watcher's last restart, or None
    files,                   \* the exercise files: path -> what running it does
    backups,                 \* the backup files: path -> content
    pc,                      \* "init", "init_apply", "constructed", "ready",
                             \* "check_all", "check_apply", "crashed", "exited"
    batch_paths,             \* _evaluate_exercises_ordered: exercise_paths
    futures,                 \* one per submitted path: its state and evaluation
    result_map,              \* _evaluate_exercises_ordered: result_map, in
                             \* insertion (completion) order
    returned,                \* the list the batch returned to its caller
    applied,                 \* per entry name: the evaluation last applied to it
    finished,                \* how many times FINISHED was printed
    raised,                  \* the exception the last operation raised, or "none"
    solutions,               \* the solution files copied to the workspace
    retval                   \* what the last lookup or command-line operation
                             \* returned

mgr == <<exercises, current_exercise, current_exercise_state, arg_exercise,
         completed_count, completed_flag, watcher, show_hint, lasttime, watched,
         files, applied, finished, raised>>

batch == <<pc, batch_paths, futures, result_map, returned>>

cli == <<solutions, retval>>

vars == <<mgr, backups, batch, cli>>

\* the printed FINISHED banners a session of the model may reach
MaxFinished == 2

\* the manager's fields and the files as one record, for the methods below
Self ==
    [exercises |-> exercises, current_exercise |-> current_exercise,
     current_exercise_state |-> current_exercise_state,
     arg_exercise |-> arg_exercise, completed_count |-> completed_count,
     completed_flag |-> completed_flag, watcher |-> watcher,
     show_hint |-> show_hint, lasttime |-> lasttime, watched |-> watched,
     files |-> files, applied |-> applied, finished |-> finished,
     raised |-> raised]

Becomes(m) ==
    /\ exercises' = m.exercises
    /\ current_exercise' = m.current_exercise
    /\ current_exercise_state' = m.current_exercise_state
    /\ arg_exercise' = m.arg_exercise
    /\ completed_count' = m.completed_count
    /\ completed_flag' = m.completed_flag
    /\ watcher' = m.watcher
    /\ show_hint' = m.show_hint
    /\ lasttime' = m.lasttime
    /\ watched' = m.watched
    /\ files' = m.files
    /\ applied' = m.applied
    /\ finished' = m.finished
    /\ raised' = m.raised

\* what was applied to an entry: the evaluation and what the file did then
Applied(content, ev) == [content |-> content, ev |-> ev]

(***************************************************************************)
(* update_exercise_output                                                  *)
(***************************************************************************)

\* the bug of not consulting completed_flag before FINISHED is printed
ApplyAndRecount_unflagged(m, name, content, ev) ==
    LET exs == _update_exercise_status(m.exercises, name, ev.result)
        fire == CountDone(exs) = Len(exs)
    IN  [m EXCEPT !.exercises = exs,
                  !.current_exercise_state = StatusOf(ev.result),
                  !.completed_count = CountDone(exs),
                  !.completed_flag = @ \/ fire,
                  !.finished = IF fire THEN @ + 1 ELSE @,
                  !.applied = [@ EXCEPT ![name] = Applied(content, ev)]]

\* the bug of hiding the hint whenever a result is applied
ApplyAndRecount_hide(m, name, content, ev) ==
    LET exs == _update_exercise_status(m.exercises, name, ev.result)
        fire == CountDone(exs) = Len(exs) /\ ~m.completed_flag
    IN  [m EXCEPT !.exercises = exs,
                  !.current_exercise_state = StatusOf(ev.result),
                  !.completed_count = CountDone(exs),
                  !.completed_flag = @ \/ fire,
                  !.finished = IF fire THEN @ + 1 ELSE @,
                  !.show_hint = FALSE,
                  !.applied = [@ EXCEPT ![name] = Applied(content, ev)]]

\* lines 357-364: the result is applied and the progress recounted
ApplyAndRecount(m, name, content, ev) ==
    LET exs == _update_exercise_status(m.exercises, name, ev.result)
        fire == CountDone(exs) = Len(exs) /\ ~m.completed_flag
    IN  [m EXCEPT !.exercises = exs,
                  !.current_exercise_state = StatusOf(ev.result),
                  !.completed_count = CountDone(exs),
                  !.completed_flag = @ \/ fire,
                  !.finished = IF fire THEN @ + 1 ELSE @,
                  !.applied = [@ EXCEPT ![name] = Applied(content, ev)]]

\* lines 355-357: the current exercise is run; a raise or a missing entry propagates
RunCurrent(m, content, ev) ==
    IF ev.raised THEN [m EXCEPT !.raised = "Exception"]
    ELSE IF EntryIndex(m.exercises, NameOf(m.current_exercise)) = 0
    THEN [m EXCEPT !.raised = "KeyError"]
    ELSE ApplyAndRecount(m, NameOf(m.current_exercise), content, ev)

\* lines 348-353: a pending arg_exercise becomes the current exercise
AdoptArg(m) ==
    IF m.arg_exercise # None
    THEN [m EXCEPT !.current_exercise = m.arg_exercise, !.arg_exercise = None]
    ELSE m

EvaluateCurrent(m, content) ==
    RunCurrent(m, content, run_exercise(m.current_exercise, content))

UpdateAdopted(m) ==
    IF m.current_exercise = None THEN m
    ELSE EvaluateCurrent(m, ContentOf(m.files, m.current_exercise))

update_exercise_output(m) == UpdateAdopted(AdoptArg(m))

(***************************************************************************)
(* next_exercise, reset_exercise, toggle_hint                              *)
(***************************************************************************)

\* next((i for i, ex in enumerate(exercises) if ex["path"] == current), None), 1-based
CurrentIndex(m) ==
    IF \E i \in 1..Len(m.exercises) : m.exercises[i].path = m.current_exercise
    THEN CHOOSE i \in 1..Len(m.exercises) :
            /\ m.exercises[i].path = m.current_exercise
            /\ \A j \in 1..(i - 1) : m.exercises[j].path # m.current_exercise
    ELSE 0

\* lines 402-405, reached when update_exercise_output returned
AfterAdvance(m, new_exercise) ==
    IF m.raised # "none" THEN m
    ELSE [m EXCEPT
            !.current_exercise_state =
                m.exercises[EntryIndex(m.exercises, NameOf(m.current_exercise))].status,
            !.lasttime = new_exercise,
            !.watched = IF m.watcher THEN m.current_exercise ELSE @]

\* lines 398-405
Advance(m, new_exercise) ==
    AfterAdvance(
        update_exercise_output([m EXCEPT !.current_exercise = new_exercise,
                                         !.show_hint = FALSE]),
        new_exercise)

\* the bug of wrapping round to the first entry at the end of the sequence
next_exercise_wrap(m) ==
    IF CurrentIndex(m) # 0 /\ CurrentIndex(m) < Len(m.exercises)
    THEN Advance(m, m.exercises[CurrentIndex(m) + 1].path)
    ELSE IF CurrentIndex(m) # 0
    THEN Advance(m, m.exercises[1].path)
    ELSE m

next_exercise(m) ==
    IF CurrentIndex(m) # 0 /\ CurrentIndex(m) < Len(m.exercises)
    THEN Advance(m, m.exercises[CurrentIndex(m) + 1].path)
    ELSE m

BackupOf(path) == BACKUP_DIR \o RelativeTo(path, EXERCISES_DIR)

\* lines 424-426, reached when update_exercise_output returned
AfterReset(m, prev_status) ==
    IF m.raised # "none" THEN m
    ELSE IF prev_status = "DONE"
    THEN [m EXCEPT !.completed_flag = FALSE, !.completed_count = @ - 1]
    ELSE m

\* lines 422-426, the file already restored
Reevaluate(m) ==
    IF EntryIndex(m.exercises, NameOf(m.current_exercise)) = 0
    THEN [m EXCEPT !.raised = "KeyError"]
    ELSE AfterReset(
            update_exercise_output(m),
            m.exercises[EntryIndex(m.exercises, NameOf(m.current_exercise))].status)

\* the bug of raising when the backup is missing, as reset_exercise_by_path does
reset_exercise_strict(m, bk) ==
    IF m.current_exercise = None THEN m
    ELSE IF BackupOf(m.current_exercise) \in DOMAIN bk
    THEN Reevaluate([m EXCEPT !.files =
            (m.current_exercise :> bk[BackupOf(m.current_exercise)]) @@ @])
    ELSE [m EXCEPT !.raised = "FileNotFoundError"]

reset_exercise(m, bk) ==
    IF m.current_exercise = None THEN m
    ELSE IF BackupOf(m.current_exercise) \in DOMAIN bk
    THEN Reevaluate([m EXCEPT !.files =
            (m.current_exercise :> bk[BackupOf(m.current_exercise)]) @@ @])
    ELSE m

\* the bug of showing the hint instead of flipping the flag
toggle_hint_show(m) == [m EXCEPT !.show_hint = TRUE]

toggle_hint(m) == [m EXCEPT !.show_hint = ~@]

(***************************************************************************)
(* _evaluate_exercises_ordered: the workers, the as_completed loop, and    *)
(* the list returned once the pool has shut down                           *)
(***************************************************************************)

Running == [state |-> "running"]

AllRunning(paths) == [i \in 1..Len(paths) |-> Running]

\* the future of a path of the running batch
FutureOf(path) == futures[IndexOf(batch_paths, path)]

\* result_map is a dict: its items in insertion order, one per key
MapIndex(rmap, path) ==
    IF \E k \in 1..Len(rmap) : rmap[k].path = path
    THEN CHOOSE k \in 1..Len(rmap) : rmap[k].path = path
    ELSE 0

\* result_map[path] = result
MapPut(rmap, path, result) ==
    IF MapIndex(rmap, path) = 0
    THEN Append(rmap, [path |-> path, result |-> result])
    ELSE [rmap EXCEPT ![MapIndex(rmap, path)].result = result]

\* the bug of returning the results as they completed: list(result_map.items())
OrderedResults_completion(paths, rmap) == rmap

\* the bug of giving up at the first path without a result
RECURSIVE OrderedResults_stop(_, _)
OrderedResults_stop(paths, rmap) ==
    IF paths = <<>> THEN <<>>
    ELSE IF MapIndex(rmap, Head(paths)) # 0
    THEN <<rmap[MapIndex(rmap, Head(paths))]>> \o OrderedResults_stop(Tail(paths), rmap)
    ELSE <<>>

\* [(path, result_map[path]) for path in exercise_paths if path in result_map]
RECURSIVE OrderedResults(_, _)
OrderedResults(paths, rmap) ==
    IF paths = <<>> THEN <<>>
    ELSE IF MapIndex(rmap, Head(paths)) # 0
    THEN <<rmap[MapIndex(rmap, Head(paths))]>> \o OrderedResults(Tail(paths), rmap)
    ELSE OrderedResults(Tail(paths), rmap)

\* a worker thread runs run_exercise to its end
WorkerFinish(i) ==
    /\ pc \in {"init", "check_all"}
    /\ futures[i].state = "running"
    /\ LET content == ContentOf(files, batch_paths[i])
       IN  futures' = [futures EXCEPT ![i] =
                [state |-> "done", content |-> content,
                 ev |-> run_exercise(batch_paths[i], content)]]
    /\ UNCHANGED <<mgr, backups, cli, pc, batch_paths, result_map, returned>>

\* the initiating thread takes a completed future from as_completed
Collect(i) ==
    /\ pc \in {"init", "check_all"}
    /\ futures[i].state = "done"
    /\ futures' = [futures EXCEPT ![i].state = "collected"]
    /\ result_map' = IF futures[i].ev.raised
                     THEN result_map
                     ELSE MapPut(result_map, batch_paths[i], futures[i].ev.result)
    /\ UNCHANGED <<mgr, backups, cli, pc, batch_paths, returned>>

\* the bug of returning once one future has been collected, the pool not shut down
BatchDone_first == \E i \in 1..Len(futures) : futures[i].state = "collected"

BatchDone == \A i \in 1..Len(futures) : futures[i].state = "collected"

\* the pool has shut down: _evaluate_exercises_ordered returns to its caller
ReturnBatch ==
    /\ pc \in {"init", "check_all"}
    /\ BatchDone
    /\ returned' = OrderedResults(batch_paths, result_map)
    /\ pc' = IF pc = "init" THEN "init_apply" ELSE "check_apply"
    /\ UNCHANGED <<mgr, backups, cli, batch_paths, futures, result_map>>

\* the locals of the batch are gone once its caller has used the results
BatchCleared ==
    /\ batch_paths' = <<>>
    /\ futures' = <<>>
    /\ result_map' = <<>>
    /\ returned' = <<>>

\* for path, result in results: self._store_result(path, result)
RECURSIVE StoreAll(_, _)
StoreAll(exs, results) ==
    IF results = <<>> THEN exs
    ELSE StoreAll(_store_result(exs, Head(results).path, Head(results).result),
                  Tail(results))

\* for (path, result) in results: self._update_exercise_status(path.name, result)
RECURSIVE UpdateAll(_, _)
UpdateAll(exs, results) ==
    IF results = <<>> THEN exs
    ELSE UpdateAll(_update_exercise_status(exs, NameOf(Head(results).path),
                                           Head(results).result),
                   Tail(results))

\* the record of what was applied, entry by entry
RECURSIVE AppliedAll(_, _)
AppliedAll(ap, results) ==
    IF results = <<>> THEN ap
    ELSE LET f == FutureOf(Head(results).path)
         IN  AppliedAll((NameOf(Head(results).path) :> Applied(f.content, f.ev)) @@ ap,
                        Tail(results))

(***************************************************************************)
(* Initial state: __init__ has set the fields and _initialize_exercises    *)
(* has submitted the sorted exercise files to the pool                     *)
(***************************************************************************)

\* the exercise trees of the model: none, one file, two files, and two files of
\* different topics that share a name
Worlds ==
    { {},
      {EXERCISES_DIR \o <<"t1", "a.py">>},
      {EXERCISES_DIR \o <<"t1", "a.py">>, EXERCISES_DIR \o <<"t1", "b.py">>},
      {EXERCISES_DIR \o <<"t1", "b.py">>, EXERCISES_DIR \o <<"t2", "a.py">>},
      {EXERCISES_DIR \o <<"t1", "a.py">>, EXERCISES_DIR \o <<"t2", "a.py">>} }

\* the backups shipped with the package: the pristine t1/a.py is unsolved, the
\* pristine t1/b.py already passes, t2/a.py has no backup
Pristine(p) == IF p = EXERCISES_DIR \o <<"t1", "a.py">> THEN Broken ELSE Solved

BackedUp == {EXERCISES_DIR \o <<"t1", "a.py">>, EXERCISES_DIR \o <<"t1", "b.py">>}

\* the fields __init__ sets (lines 38-46) and the submitted batch, for the
\* exercise tree W whose files do what fs says
Constructing(W, fs) ==
    /\ files = fs
    /\ backups = [b \in {BackupOf(p) : p \in W \cap BackedUp} |->
                      Pristine(EXERCISES_DIR \o RelativeTo(b, BACKUP_DIR))]
    /\ batch_paths = SortedPaths(W)
    /\ futures = AllRunning(SortedPaths(W))
    /\ exercises = <<>>
    /\ current_exercise = None
    /\ current_exercise_state = ""
    /\ arg_exercise = None
    /\ completed_count = 0
    /\ completed_flag = FALSE
    /\ watcher = FALSE
    /\ show_hint = FALSE
    /\ watched = None
    /\ pc = "init"
    /\ result_map = <<>>
    /\ returned = <<>>
    /\ applied = <<>>
    /\ finished = 0
    /\ raised = "none"
    /\ solutions = <<>>
    /\ retval = NoValue

\* a session: a file may fault when the manager is constructed; the user's
\* edits make it a solved or an unsolved exercise
Init ==
    /\ \E W \in Worlds : \E fs \in [W -> Contents \cup {Faulty}] : Constructing(W, fs)
    /\ lasttime \in {RelativeTo(p, EXERCISES_DIR) : p \in ExercisePaths}

\* _initialize_exercises after the batch, then the rest of __init__
FinishInit ==
    /\ pc = "init_apply"
    /\ LET results == returned
           exs == StoreAll(exercises, results)
           cur == JoinPath(EXERCISES_DIR, lasttime)
           i == EntryIndex(exs, NameOf(cur))
       IN  /\ exercises' = exs
           /\ applied' = AppliedAll(applied, results)
           /\ current_exercise' = cur
           /\ IF i = 0
              THEN /\ raised' = "KeyError"
                   /\ pc' = "crashed"
                   /\ UNCHANGED <<current_exercise_state, completed_count>>
              ELSE /\ raised' = "none"
                   /\ pc' = "constructed"
                   /\ current_exercise_state' = exs[i].status
                   /\ completed_count' = CountDone(exs)
    /\ BatchCleared
    /\ UNCHANGED <<arg_exercise, completed_flag, watcher, show_hint, lasttime,
                   watched, files, finished, backups, cli>>

(***************************************************************************)
(* The operations of a constructed manager                                 *)
(***************************************************************************)

UpdateExerciseOutput ==
    /\ pc = "ready"
    /\ LET m == update_exercise_output([Self EXCEPT !.raised = "none"])
       IN  m.finished <= MaxFinished /\ Becomes(m)
    /\ UNCHANGED <<backups, cli, batch>>

\* check_all_exercises up to the submission of the batch
CheckAllExercises ==
    /\ pc = "ready"
    /\ pc' = "check_all"
    /\ batch_paths' = [i \in 1..Len(exercises) |-> exercises[i].path]
    /\ futures' = AllRunning(exercises)
    /\ result_map' = <<>>
    /\ returned' = <<>>
    /\ raised' = "none"
    /\ UNCHANGED <<exercises, current_exercise, current_exercise_state, arg_exercise,
                   completed_count, completed_flag, watcher, show_hint, lasttime,
                   watched, files, applied, finished, backups, cli>>

\* check_all_exercises after the batch
FinishCheckAll ==
    /\ pc = "check_apply"
    /\ LET results == returned
           exs == UpdateAll(exercises, results)
       IN  /\ exercises' = exs
           /\ applied' = AppliedAll(applied, results)
           /\ completed_count' = CountDone(exs)
    /\ pc' = "ready"
    /\ BatchCleared
    /\ UNCHANGED <<current_exercise, current_exercise_state, arg_exercise,
                   completed_flag, watcher, show_hint, lasttime, watched, files,
                   finished, raised, backups, cli>>

NextExercise ==
    /\ pc = "ready"
    /\ LET m == next_exercise([Self EXCEPT !.raised = "none"])
       IN  m.finished <= MaxFinished /\ Becomes(m)
    /\ UNCHANGED <<backups, cli, batch>>

ResetExercise ==
    /\ pc = "ready"
    /\ LET m == reset_exercise([Self EXCEPT !.raised = "none"], backups)
       IN  m.finished <= MaxFinished /\ Becomes(m)
    /\ UNCHANGED <<backups, cli, batch>>

ToggleHint ==
    /\ pc = "ready"
    /\ Becomes(toggle_hint([Self EXCEPT !.raised = "none"]))
    /\ UNCHANGED <<backups, cli, batch>>

(***************************************************************************)
(* The surroundings: the user edits a file; the caller wires the manager   *)
(***************************************************************************)

EditFile(p, c) ==
    /\ pc \notin {"crashed", "exited"}
    /\ p \in DOMAIN files
    /\ files[p] # c
    /\ files' = [files EXCEPT ![p] = c]
    /\ UNCHANGED <<exercises, current_exercise, current_exercise_state, arg_exercise,
                   completed_count, completed_flag, watcher, show_hint, lasttime,
                   watched, applied, finished, raised, backups, cli, batch>>

\* the caller that constructed the manager wires it up before the first
\* operation: the command line may name an exercise (arg_exercise) and the
\* interface may attach its file watcher
Launch(arg, w) ==
    /\ pc = "constructed"
    /\ arg \in {None} \cup DOMAIN files
    /\ arg_exercise' = arg
    /\ watcher' = w
    /\ pc' = "ready"
    /\ UNCHANGED <<exercises, current_exercise, current_exercise_state,
                   completed_count, completed_flag, show_hint, lasttime,
                   watched, files, applied, finished, raised, backups, cli,
                   batch_paths, futures, result_map, returned>>

(***************************************************************************)
(* The lookup and command-line operations: get_solution, get_exercise_path,*)
(* run_and_print, print_root_solution, reset_exercise_by_path              *)
(***************************************************************************)

SOLUTIONS_DIR == BASE_DIR \o <<"solutions">>

\* the solutions shipped with the package: only t1/a.py has one
RootSolutions ==
    (PACKAGE_DIR \o <<"solutions", "t1", "a.py">>) :> Solved

\* the exercises shipped with the package, as they were before any edit
RootExercises ==
    (PACKAGE_DIR \o <<"exercises", "t1", "a.py">>) :> Broken

\* a file of the workspace that is no exercise
OtherFiles == (BASE_DIR \o <<"notes.py">>) :> Solved

\* every file a path can name, and what running it does
Disk == files @@ solutions @@ RootSolutions @@ RootExercises @@ OtherFiles

\* Path.exists()
Exists(path) == path \in DOMAIN Disk

\* base.joinpath(*parts): an absolute part starts the path over
RECURSIVE JoinParts(_, _)
JoinParts(base, parts) ==
    IF parts = <<>> THEN base
    ELSE JoinParts(IF Head(parts) = "/" THEN <<"/">> ELSE Append(base, Head(parts)),
                   Tail(parts))

\* path.resolve() of a path given on the command line: relative to the cwd
Resolve(path) == IF path # <<>> /\ path[1] = "/" THEN path ELSE BASE_DIR \o path

\* base in path.parents
IsUnder(path, base) ==
    Len(path) > Len(base) /\ SubSeq(path, 1, Len(base)) = base

\* the directory a source names
SourceDir(source) == IF source = "workspace" THEN BASE_DIR ELSE PACKAGE_DIR

\* ConfigManager.get_local_solution_path: the short form of the copy's path
get_local_solution_path(solution_path) == RelativeTo(solution_path, BASE_DIR)

\* get_solution: the copies in the workspace afterwards, and the value returned
get_solution_copy(m, sols) ==
    LET relative_path == RelativeTo(m.current_exercise, EXERCISES_DIR)
        root_solution == PACKAGE_DIR \o <<"solutions">> \o relative_path
    IN  IF m.current_exercise # None /\ IsUnder(m.current_exercise, EXERCISES_DIR)
           /\ root_solution \in DOMAIN RootSolutions
        THEN ((SOLUTIONS_DIR \o relative_path) :> RootSolutions[root_solution]) @@ sols
        ELSE sols

get_solution(m, sols) ==
    LET relative_path == RelativeTo(m.current_exercise, EXERCISES_DIR)
        root_solution == PACKAGE_DIR \o <<"solutions">> \o relative_path
    IN  IF m.current_exercise # None /\ IsUnder(m.current_exercise, EXERCISES_DIR)
           /\ root_solution \in DOMAIN RootSolutions
        THEN SolutionPair(SOLUTIONS_DIR \o relative_path,
                          get_local_solution_path(SOLUTIONS_DIR \o relative_path))
        ELSE NoValue

\* get_exercise_path: the exception raised, or the path returned
Raises(exception) == [raised |-> exception, path |-> None]

Returns(path) == [raised |-> "none", path |-> path]

get_exercise_path(path, source) ==
    LET abs_path == Resolve(path)
        rel_parts == IF HasTok(abs_path, "exercises")
                     THEN SubSeq(abs_path, IndexOf(abs_path, "exercises") + 1,
                                 Len(abs_path))
                     ELSE path
        root == JoinParts(SourceDir(source) \o <<"exercises">>, rel_parts)
    IN  IF path = <<>> THEN Raises("ValueError")
        ELSE IF rel_parts = <<>> THEN Raises("ValueError")
        ELSE IF ~Exists(root) THEN Raises("FileNotFoundError")
        ELSE Returns(root)

\* print_root_solution: the file it looks for
SolutionRoot(path, source) ==
    JoinParts(SourceDir(source),
              IF path[1] = "exercises" THEN <<"solutions">> \o Tail(path)
              ELSE IF HasTok(path, "solutions") THEN path
              ELSE <<"solutions">> \o path)

\* what a call ended in: exit(1), an exception, or an evaluation to report
Exits == [kind |-> "exit", raised |-> "SystemExit", ev |-> NoResult]

Fails(exception) == [kind |-> "raise", raised |-> exception, ev |-> NoResult]

Ran(ev) ==
    [kind |-> IF ev.raised THEN "raise" ELSE "result",
     raised |-> IF ev.raised THEN "Exception" ELSE "none",
     ev |-> ev.result]

print_root_solution(path, source) ==
    IF path = <<>> THEN Fails("IndexError")
    ELSE IF ~Exists(SolutionRoot(path, source)) THEN Exits
    ELSE Ran(run_exercise(SolutionRoot(path, source),
                          Disk[SolutionRoot(path, source)]))

\* run_and_print up to the result it prints (lines 526-530)
RunRequested(path, source, type) ==
    CASE type = "d" ->
            IF get_exercise_path(path, source).raised # "none"
            THEN Fails(get_exercise_path(path, source).raised)
            ELSE Ran(run_exercise(get_exercise_path(path, source).path,
                                  Disk[get_exercise_path(path, source).path]))
      [] type = "s" -> print_root_solution(path, source)
      [] OTHER -> Fails("UnboundLocalError")

\* run_and_print: the result was printed; a failed run raises RuntimeError
run_and_print(path, source, type) ==
    IF /\ RunRequested(path, source, type).kind = "result"
       /\ RunRequested(path, source, type).ev.returncode # 0
    THEN Fails("RuntimeError")
    ELSE RunRequested(path, source, type)

\* reset_exercise_by_path: the exception it raises, "none" when it restores
reset_exercise_by_path(path, bk) ==
    IF ~Exists(Resolve(path)) THEN "FileNotFoundError"
    ELSE IF ~IsUnder(Resolve(path), EXERCISES_DIR) THEN "ValueError"
    ELSE IF BackupOf(Resolve(path)) \notin DOMAIN bk THEN "FileNotFoundError"
    ELSE "none"

\* the manager's fields, the files of the workspace and the batch are untouched
ManagerUntouched ==
    UNCHANGED <<exercises, current_exercise, current_exercise_state, arg_exercise,
                completed_count, completed_flag, watcher, show_hint, lasttime,
                watched, applied, finished, backups, batch_paths, futures,
                result_map, returned>>

GetSolution ==
    /\ pc = "ready"
    /\ solutions' = get_solution_copy(Self, solutions)
    /\ retval' = get_solution(Self, solutions)
    /\ raised' = "none"
    /\ ManagerUntouched
    /\ UNCHANGED <<files, pc>>

\* a call ended: the process exits, or an exception or the value reaches the
\* caller (run_and_print returns nothing)
Ended(o, returns_result) ==
    /\ pc' = IF o.kind = "exit" THEN "exited" ELSE pc
    /\ raised' = o.raised
    /\ retval' = IF returns_result /\ o.kind = "result"
                 THEN ProcessValue(o.ev) ELSE NoValue

PrintRootSolution(path, source) ==
    /\ pc = "ready"
    /\ Ended(print_root_solution(path, source), TRUE)
    /\ ManagerUntouched
    /\ UNCHANGED <<files, solutions>>

RunAndPrint(path, source, type) ==
    /\ pc = "ready"
    /\ Ended(run_and_print(path, source, type), FALSE)
    /\ ManagerUntouched
    /\ UNCHANGED <<files, solutions>>

ResetExerciseByPath(path) ==
    /\ pc = "ready"
    /\ raised' = reset_exercise_by_path(path, backups)
    /\ files' = IF reset_exercise_by_path(path, backups) = "none"
                THEN [files EXCEPT ![Resolve(path)] = backups[BackupOf(Resolve(path))]]
                ELSE files
    /\ retval' = NoValue
    /\ ManagerUntouched
    /\ UNCHANGED <<solutions, pc>>

Next ==
    \/ \E i \in 1..Len(futures) : WorkerFinish(i)
    \/ \E i \in 1..Len(futures) : Collect(i)
    \/ ReturnBatch
    \/ FinishInit
    \/ UpdateExerciseOutput
    \/ CheckAllExercises
    \/ FinishCheckAll
    \/ NextExercise
    \/ ResetExercise
    \/ ToggleHint
    \/ \E p \in ExercisePaths, c \in Contents : EditFile(p, c)
    \/ \E arg \in {None} \cup ExercisePaths, w \in BOOLEAN : Launch(arg, w)

Spec == Init /\ [][Next]_vars

\* a session in which reset_exercise is never called
NextNoReset ==
    \/ \E i \in 1..Len(futures) : WorkerFinish(i)
    \/ \E i \in 1..Len(futures) : Collect(i)
    \/ ReturnBatch
    \/ FinishInit
    \/ UpdateExerciseOutput
    \/ CheckAllExercises
    \/ FinishCheckAll
    \/ NextExercise
    \/ ToggleHint
    \/ \E p \in ExercisePaths, c \in Contents : EditFile(p, c)
    \/ \E arg \in {None} \cup ExercisePaths, w \in BOOLEAN : Launch(arg, w)

SpecNoReset == Init /\ [][NextNoReset]_vars

(***************************************************************************)
(* The batch evaluation alone: three files, any of which may fault at any  *)
(* evaluation, under construction and under check_all_exercises            *)
(***************************************************************************)

BatchContents == {Solved, Broken, Faulty}

BatchWorlds ==
    { ExercisePaths,
      {EXERCISES_DIR \o <<"t1", "a.py">>, EXERCISES_DIR \o <<"t1", "b.py">>} }

InitBatch ==
    /\ \E W \in BatchWorlds : \E fs \in [W -> BatchContents] : Constructing(W, fs)
    /\ lasttime \in {RelativeTo(p, EXERCISES_DIR) : p \in ExercisePaths}

NextBatch ==
    \/ \E i \in 1..Len(futures) : WorkerFinish(i)
    \/ \E i \in 1..Len(futures) : Collect(i)
    \/ ReturnBatch
    \/ FinishInit
    \/ Launch(None, FALSE)
    \/ CheckAllExercises
    \/ FinishCheckAll
    \/ \E p \in ExercisePaths, c \in BatchContents : EditFile(p, c)

SpecBatch == InitBatch /\ [][NextBatch]_vars

(***************************************************************************)
(* One exercise evaluated on every outcome of its two runs: a file with a  *)
(* validation test, a file without one, and a file directly under the      *)
(* exercises root                                                          *)
(***************************************************************************)

Outs == {<<>>, StdoutOk}

Errs == {<<>>, Traceback}

DirectOutcomes ==
    {DirectExit(rc, o, e) : rc \in {0, 1}, o \in Outs, e \in Errs}
        \cup {DirectTimeout(o, e) : o \in Outs, e \in Errs}
        \cup {DirectError(<<"Errno 2">>)}

ValidationOutcomes ==
    {ValidationExit(rc, o) : rc \in {0, 1}, o \in {<<>>, PytestFailed}}
        \cup {ValidationTimeout, ValidationError(<<"boom">>)}

RunContents ==
    {Content(FALSE, v, d) : v \in ValidationOutcomes, d \in DirectOutcomes}
        \cup {Faulty}

RunPaths ==
    { EXERCISES_DIR \o <<"t1", "a.py">>,
      EXERCISES_DIR \o <<"t2", "a.py">>,
      EXERCISES_DIR \o <<"c.py">> }

InitRun ==
    \E p \in RunPaths : \E c \in RunContents :
        /\ Constructing({p}, (p :> c))
        /\ lasttime = RelativeTo(p, EXERCISES_DIR)

NextRun ==
    \/ \E i \in 1..Len(futures) : WorkerFinish(i)
    \/ \E i \in 1..Len(futures) : Collect(i)
    \/ ReturnBatch
    \/ FinishInit
    \/ Launch(None, FALSE)
    \/ UpdateExerciseOutput

SpecRun == InitRun /\ [][NextRun]_vars

(***************************************************************************)
(* One exercise whose script succeeds and whose validation run fails, on   *)
(* every output of up to two lines the validation runner can print         *)
(***************************************************************************)

\* lines of a validation runner's output: summary lines with and without a
\* description and a test name, an assertion detail, a source location, and
\* a line that carries no marker
OutputLines ==
    { <<"FAILED ", "t.py", "::", "test_a", " - ", "assert ", "[", "1">>,
      <<"FAILED ", "t.py", "::", "test_b">>,
      <<"ERROR ", "t.py", " - ", "SyntaxError">>,
      <<"ERROR ", "t.py", " - ">>,
      <<"E ", "AssertionError:", " ", "expected 1">>,
      <<"File \"", "/ws/", "exercises/", "t1/a.py", "\"", ", line ", "12", ",">>,
      <<"1 failed">> }

ValidationTexts ==
    {<<>>} \cup OutputLines
        \cup {a \o <<"\n">> \o b : a \in OutputLines, b \in OutputLines}

InitExtract ==
    \E out \in ValidationTexts :
        /\ Constructing({EXERCISES_DIR \o <<"t1", "a.py">>},
                        (EXERCISES_DIR \o <<"t1", "a.py">>) :>
                            Content(FALSE, ValidationExit(1, out),
                                    DirectExit(0, StdoutOk, <<>>)))
        /\ lasttime = <<"t1", "a.py">>

SpecExtract == InitExtract /\ [][NextRun]_vars

(***************************************************************************)
(* The manager with its lookup and command-line operations, over exercises *)
(* that pass, fail, hang or cannot be started                              *)
(***************************************************************************)

\* a script that hangs after printing, and one the system cannot start
Stuck == Content(FALSE, ValidationExit(0, <<>>), DirectTimeout(StdoutOk, <<>>))

Unstartable == Content(FALSE, ValidationExit(0, <<>>), DirectError(<<"Errno 13">>))

CliContents == {Solved, Broken, Stuck, Unstartable}

CliWorlds ==
    { {EXERCISES_DIR \o <<"t1", "a.py">>},
      {EXERCISES_DIR \o <<"t1", "b.py">>, EXERCISES_DIR \o <<"t2", "a.py">>} }

\* paths as the command line gives them: ".", with and without exercises/
CliPaths == {<<>>, <<"exercises", "t1", "a.py">>, <<"t1", "b.py">>}

\* paths given to reset_exercise_by_path
ResetPaths == ExercisePaths \cup {<<"notes.py">>}

Sources == {"workspace", "package"}

InitCli ==
    \E W \in CliWorlds : \E fs \in [W -> CliContents] :
        /\ Constructing(W, fs)
        /\ lasttime \in {RelativeTo(p, EXERCISES_DIR) : p \in W}

NextCli ==
    \/ \E i \in 1..Len(futures) : WorkerFinish(i)
    \/ \E i \in 1..Len(futures) : Collect(i)
    \/ ReturnBatch
    \/ FinishInit
    \/ Launch(None, FALSE)
    \/ UpdateExerciseOutput
    \/ CheckAllExercises
    \/ FinishCheckAll
    \/ NextExercise
    \/ ResetExercise
    \/ \E p \in ExercisePaths : EditFile(p, Solved)
    \/ GetSolution
    \/ \E path \in CliPaths, source \in Sources : PrintRootSolution(path, source)
    \/ \E path \in CliPaths, source \in Sources, type \in {"d", "s", "x"} :
          RunAndPrint(path, source, type)
    \/ \E path \in ResetPaths : ResetExerciseByPath(path)

SpecCli == InitCli /\ [][NextCli]_vars

(***************************************************************************)
(* Properties                                                              *)
(***************************************************************************)

\* the batch has returned and its caller has not yet used the list
BatchReturned == pc \in {"init_apply", "check_apply"}

\* the position of a returned pair's path in the list that was submitted
InputIndex(k) == IndexOf(batch_paths, returned[k].path)

\* C1: whatever order the workers complete in, the list a batch returns keeps
\* the relative order of the submitted paths, and each path comes with the
\* result of its own evaluation.
C1_OrderPreserved ==
    BatchReturned =>
        /\ \A k \in 1..Len(returned) : InputIndex(k) # 0
        /\ \A k, l \in 1..Len(returned) : k < l => InputIndex(k) < InputIndex(l)
        /\ \A k \in 1..Len(returned) :
              /\ ~futures[InputIndex(k)].ev.raised
              /\ returned[k].result = futures[InputIndex(k)].ev.result
              /\ returned[k].result.args = <<returned[k].path>>

\* three exercises with three different results, the last submitted completing
\* first and the first submitted completing last
C1_Witness ==
    /\ BatchReturned
    /\ Len(returned) = 3
    /\ result_map[1].path = batch_paths[3]
    /\ result_map[3].path = batch_paths[1]
    /\ returned[1].result.returncode # returned[2].result.returncode

\* C2: within a batch every submitted exercise is evaluated; the returned list
\* has exactly one pair for each path whose evaluation returned a result and
\* none for a path whose evaluation raised; no evaluation's exception leaves
\* the batch.
C2_Isolated ==
    /\ raised # "Exception"
    /\ BatchReturned =>
          \A i \in 1..Len(batch_paths) :
              /\ futures[i].state = "collected"
              /\ Cardinality({k \in 1..Len(returned) :
                                returned[k].path = batch_paths[i]})
                    = IF futures[i].ev.raised THEN 0 ELSE 1

\* the first submitted exercise raised, the two after it have their results
C2_Witness ==
    /\ BatchReturned
    /\ Len(batch_paths) = 3
    /\ futures[1].ev.raised
    /\ Len(returned) = 2
    /\ returned[1].result.returncode = 0
    /\ returned[2].result.returncode # 0

\* the file layout: <exercises-root>/<topic>/.../<name>.py is validated by
\* <tests-root>/<topic>/test_<name>.py when that file exists
HasValidationTest(path) ==
    /\ Len(path) >= Len(EXERCISES_DIR) + 2
    /\ TESTS_DIR \o <<path[Len(EXERCISES_DIR) + 1], TestName(NameOf(path))>> \in TestFiles

\* the validation run exited 0 / the direct run exited 0
ValidationPassed(c) == c.validation.kind = "exit" /\ c.validation.rc = 0

DirectSucceeded(c) == c.direct.kind = "exit" /\ c.direct.rc = 0

\* the evaluation last applied to entry i: what the file did and the result
ContentAt(i) == applied[exercises[i].name].content

ResultAt(i) == applied[exercises[i].name].ev.result

\* C3: with a validation test, the result has exit code 0 (the entry is DONE)
\* exactly when the validation run exited 0 and the direct run exited 0, and
\* then its stdout is the direct run's stdout.
C3_ValidationGated ==
    \A i \in 1..Len(exercises) :
        HasValidationTest(exercises[i].path) =>
            /\ ResultAt(i).returncode = 0
                  <=> (ValidationPassed(ContentAt(i)) /\ DirectSucceeded(ContentAt(i)))
            /\ exercises[i].status = "DONE" <=> ResultAt(i).returncode = 0
            /\ ResultAt(i).returncode = 0
                  => ResultAt(i).stdout = ContentAt(i).direct.out

\* a validated exercise re-evaluated to DONE, its stdout the direct run's
C3_Witness ==
    /\ pc = "ready"
    /\ Len(exercises) = 1
    /\ HasValidationTest(exercises[1].path)
    /\ exercises[1].status = "DONE"
    /\ ResultAt(1).stdout = StdoutOk

\* C4: with a validation test, when the direct run exits non-zero and the
\* validation run passes, the entry is PENDING and the error is the direct
\* run's own stderr, or its stdout when the stderr is empty (the result is the
\* direct run's result; the entry holds that text through _format_output).
C4_DirectErrorFirst ==
    \A i \in 1..Len(exercises) :
        ( /\ HasValidationTest(exercises[i].path)
          /\ ValidationPassed(ContentAt(i))
          /\ ContentAt(i).direct.kind = "exit"
          /\ ContentAt(i).direct.rc # 0 ) =>
            /\ exercises[i].status = "PENDING"
            /\ ResultAt(i).returncode = ContentAt(i).direct.rc
            /\ ResultAt(i).stderr = ContentAt(i).direct.err
            /\ ResultAt(i).stdout = ContentAt(i).direct.out
            /\ exercises[i].error =
                  SomeError(_format_output(
                      IF ContentAt(i).direct.err # <<>>
                      THEN ContentAt(i).direct.err
                      ELSE ContentAt(i).direct.out))

\* the validation passed, the script exited 1 with its message on stdout only
C4_Witness ==
    /\ pc = "ready"
    /\ Len(exercises) = 1
    /\ HasValidationTest(exercises[1].path)
    /\ ValidationPassed(ContentAt(1))
    /\ ContentAt(1).direct = DirectExit(1, StdoutOk, <<>>)
    /\ exercises[1].status = "PENDING"

\* C5: with a validation test, when the direct run exits 0 and the validation
\* run exits non-zero, the result is a failure with empty stdout whose stderr
\* is _extract_test_error of the validation runner's stdout, and the entry is
\* PENDING with empty output, its error that text as _format_output renders it.
C5_ValidationFailure ==
    \A i \in 1..Len(exercises) :
        ( /\ HasValidationTest(exercises[i].path)
          /\ ContentAt(i).validation.kind = "exit"
          /\ ContentAt(i).validation.rc # 0
          /\ DirectSucceeded(ContentAt(i)) ) =>
            /\ exercises[i].status = "PENDING"
            /\ exercises[i].output = <<>>
            /\ ResultAt(i).returncode # 0
            /\ ResultAt(i).stdout = <<>>
            /\ ResultAt(i).stderr = _extract_test_error(ContentAt(i).validation.out)
            /\ ContentAt(i).validation.out = PytestFailed
                  => ResultAt(i).stderr = <<"test_a", ": ", "assert ", "[", "1">>
            /\ ContentAt(i).validation.out = <<>>
                  => ResultAt(i).stderr = GenericTestsFailed
            /\ exercises[i].error = SomeError(_format_output(ResultAt(i).stderr))

\* a failed validation with a FAILED summary line, the script itself printing
C5_Witness ==
    /\ pc = "ready"
    /\ Len(exercises) = 1
    /\ HasValidationTest(exercises[1].path)
    /\ ContentAt(1).validation = ValidationExit(1, PytestFailed)
    /\ ContentAt(1).direct = DirectExit(0, StdoutOk, <<>>)
    /\ exercises[1].status = "PENDING"

\* C6: an exercise with no validation test (no such file, or no topic segment)
\* is evaluated by the direct run alone: no validation run is started, and the
\* entry is DONE exactly when the direct run exited 0.
C6_DirectOnly ==
    \A i \in 1..Len(exercises) :
        ~HasValidationTest(exercises[i].path) =>
            /\ ~applied[exercises[i].name].ev.ran_tests
            /\ applied[exercises[i].name].ev.ran_direct
            /\ exercises[i].status = "DONE" <=> DirectSucceeded(ContentAt(i))

\* the file directly under the exercises root is DONE on its own exit code,
\* although a validation run of it would have failed
C6_Witness ==
    /\ pc = "ready"
    /\ Len(exercises) = 1
    /\ exercises[1].path = EXERCISES_DIR \o <<"c.py">>
    /\ exercises[1].status = "DONE"
    /\ ContentAt(1).validation.kind = "exit"
    /\ ContentAt(1).validation.rc = 1

\* a process of the evaluation ran into the 10 second timeout
TimedOut(path, c) ==
    /\ ~c.fault
    /\ IF HasValidationTest(path)
       THEN \/ c.validation.kind = "timeout"
            \/ c.validation.kind = "exit" /\ c.direct.kind = "timeout"
       ELSE c.direct.kind = "timeout"

\* C7: an evaluation that timed out is recorded, never raised: the entry is
\* PENDING, its error is "Exercise timed out." and its output is empty,
\* whatever the process had written, on the direct and on the validated path.
C7_Timeout ==
    /\ \A i \in 1..Len(exercises) :
          TimedOut(exercises[i].path, ContentAt(i)) =>
              /\ exercises[i].status = "PENDING"
              /\ exercises[i].error = SomeError(TimedOutMsg)
              /\ exercises[i].output = <<>>
    /\ \A p \in DOMAIN files :
          TimedOut(p, files[p]) =>
              /\ raised = "none"
              /\ pc # "crashed"
              /\ pc \in {"constructed", "ready"} => EntryIndex(exercises, NameOf(p)) # 0

\* the validation ran, then the script timed out after writing to both streams
C7_Witness ==
    /\ pc = "ready"
    /\ Len(exercises) = 1
    /\ HasValidationTest(exercises[1].path)
    /\ ContentAt(1).validation.kind = "exit"
    /\ ContentAt(1).direct = DirectTimeout(StdoutOk, Traceback)
    /\ exercises[1].error = SomeError(TimedOutMsg)

\* C8: every entry is PENDING or DONE; it is DONE exactly when the result last
\* applied to it had exit code 0; a DONE entry has no error and its output is
\* that run's stdout as _format_output renders it (every "[" escaped); a
\* PENDING entry has empty output and an error that is set.
C8_EntryConsistent ==
    \A i \in 1..Len(exercises) :
        /\ exercises[i].status \in {"PENDING", "DONE"}
        /\ exercises[i].status = "DONE" <=> ResultAt(i).returncode = 0
        /\ exercises[i].status = "DONE" =>
              /\ exercises[i].error = NoError
              /\ exercises[i].output = _format_output(ResultAt(i).stdout)
        /\ exercises[i].status = "PENDING" =>
              /\ exercises[i].output = <<>>
              /\ exercises[i].error.set

\* in a running session one entry is DONE, its output the escaped stdout, and
\* another is PENDING
C8_Witness ==
    /\ pc = "ready"
    /\ \E i, j \in 1..Len(exercises) :
          /\ exercises[i].status = "DONE"
          /\ exercises[i].output = <<"\\", "[", "ok">>
          /\ ResultAt(i).stdout = <<"[", "ok">>
          /\ exercises[j].status = "PENDING"
          /\ exercises[j].error.set

\* C8 as stated: the output of a DONE entry is the run's stdout itself
C8_OutputIsStdout ==
    \A i \in 1..Len(exercises) :
        /\ exercises[i].status \in {"PENDING", "DONE"}
        /\ exercises[i].status = "DONE" <=> ResultAt(i).returncode = 0
        /\ exercises[i].status = "DONE" =>
              /\ exercises[i].error = NoError
              /\ exercises[i].output = ResultAt(i).stdout
        /\ exercises[i].status = "PENDING" =>
              /\ exercises[i].output = <<>>
              /\ exercises[i].error.set

\* C9: once the constructor or an operation has returned, completed_count is
\* the number of DONE entries, and so lies between 0 and the number of entries.
C9_CountDerived ==
    (pc \in {"constructed", "ready"} /\ raised = "none") =>
        /\ completed_count = CountDone(exercises)
        /\ 0 <= completed_count
        /\ completed_count <= Len(exercises)

\* the current exercise is DONE, the count is right, no other exercise is
\* waiting to be adopted, and a backup exists whose content evaluates as failing
ResetOfSolved ==
    /\ current_exercise # None
    /\ arg_exercise = None
    /\ current_exercise \in DOMAIN files
    /\ EntryIndex(exercises, NameOf(current_exercise)) # 0
    /\ exercises[EntryIndex(exercises, NameOf(current_exercise))].status = "DONE"
    /\ completed_count = CountDone(exercises)
    /\ BackupOf(current_exercise) \in DOMAIN backups
    /\ ~run_exercise(current_exercise, backups[BackupOf(current_exercise)]).raised
    /\ run_exercise(current_exercise,
                    backups[BackupOf(current_exercise)]).result.returncode # 0

\* C10: reset_exercise on a DONE current exercise whose backup evaluates as
\* failing restores the file, leaves the entry PENDING, makes completed_count
\* one less than before the call and leaves completed_flag False.
C10_ResetSemantics ==
    [][(ResetExercise /\ ResetOfSolved) =>
          /\ files'[current_exercise] = backups[BackupOf(current_exercise)]
          /\ exercises'[EntryIndex(exercises, NameOf(current_exercise))].status = "PENDING"
          /\ completed_count' = completed_count - 1
          /\ completed_flag' = FALSE]_vars

\* every entry is DONE
AllDone(exs) == CountDone(exs) = Len(exs)

\* a re-evaluation of the current exercise (directly or by advancing) returned
Reevaluated == (UpdateExerciseOutput \/ NextExercise) /\ raised' = "none"

StatusOperationReturned ==
    /\ FinishInit \/ UpdateExerciseOutput \/ FinishCheckAll \/ NextExercise \/ ResetExercise
    /\ raised' = "none"
    /\ pc' \in {"constructed", "ready"}

\* C12: whenever the constructor, update_exercise_output, check_all_exercises,
\* next_exercise or reset_exercise returns with every exercise DONE and FINISHED
\* not yet printed, that operation prints FINISHED and sets completed_flag.
C12_ProgressRecomputed ==
    [][(StatusOperationReturned /\ AllDone(exercises') /\ ~completed_flag) =>
          (completed_flag' /\ finished' = finished + 1)]_vars

\* the cursor is on the last entry of the collection
CursorOnLast == Len(exercises) > 0 /\ CurrentIndex(Self) = Len(exercises)

\* C13: with the cursor on the last entry, next_exercise raises nothing, runs
\* no evaluation, does not restart the watcher and leaves the cursor,
\* current_exercise_state, the entries, completed_count, completed_flag,
\* show_hint and the persisted last exercise as they were.
C13_EndNoOp ==
    [][(NextExercise /\ CursorOnLast) =>
          /\ raised' = "none"
          /\ UNCHANGED <<exercises, current_exercise, current_exercise_state,
                         arg_exercise, completed_count, completed_flag, watcher,
                         show_hint, lasttime, watched, files, applied, finished>>]_vars

\* the cursor is on the second of two entries with the hint shown and a
\* watcher attached that was never restarted: an advance would have hidden
\* the hint and restarted the watcher
C13_Witness ==
    /\ pc = "ready"
    /\ Len(exercises) = 2
    /\ CursorOnLast
    /\ show_hint
    /\ watcher
    /\ watched = None
    /\ raised = "none"

\* the cursor is on an entry that is not the last one
CursorBeforeLast == CurrentIndex(Self) # 0 /\ CurrentIndex(Self) < Len(exercises)

\* the entry after the cursor's
NextEntry == exercises[CurrentIndex(Self) + 1]

\* C14: with the cursor on entry i, not the last, a next_exercise that returns
\* leaves the cursor on entry i+1, that entry re-evaluated on the file as it is
\* now, current_exercise_state its fresh status, its path persisted as the
\* last exercise and an attached watcher restarted on it.
C14_AdvanceOne ==
    [][(NextExercise /\ CursorBeforeLast /\ raised' = "none") =>
          /\ current_exercise' = NextEntry.path
          /\ applied'[NextEntry.name].content = ContentOf(files, NextEntry.path)
          /\ exercises'[CurrentIndex(Self) + 1].status
                = StatusOf(run_exercise(NextEntry.path,
                                        ContentOf(files, NextEntry.path)).result)
          /\ current_exercise_state' = exercises'[CurrentIndex(Self) + 1].status
          /\ lasttime' = NextEntry.path
          /\ watcher => watched' = NextEntry.path]_vars

\* the constructor is over: it returned or it raised
InitOver == pc \notin {"init", "init_apply"}

\* C16: when the exercise root holds no .py file the constructor returns
\* without raising, with an empty collection and completed_count 0.
C16_EmptyIsValid ==
    (DOMAIN files = {} /\ InitOver) =>
        /\ pc # "crashed"
        /\ raised = "none"
        /\ exercises = <<>>
        /\ completed_count = 0

\* the constructor stores the results of a batch in which every evaluation
\* returned, and returns
InitStoresAll ==
    /\ FinishInit
    /\ raised' = "none"
    /\ Len(returned) = Cardinality(DOMAIN files)

\* the collection holds every discovered file once, in ascending path order
HoldsAllInOrder(exs, discovered) ==
    /\ Len(exs) = Cardinality(discovered)
    /\ \A p \in discovered :
          Cardinality({k \in 1..Len(exs) : exs[k].path = p}) = 1
    /\ \A k, l \in 1..Len(exs) : k < l => PathLess(exs[k].path, exs[l].path)

\* no two discovered files have the same file name
DistinctNames(discovered) ==
    \A p, q \in discovered : NameOf(p) = NameOf(q) => p = q

\* C18: after an initialization in which every evaluation returned a result,
\* the collection holds every discovered file exactly once, in lexicographic
\* path order, provided no two discovered files share a file name.
C18_DiscoveredOnce ==
    [][(InitStoresAll /\ DistinctNames(DOMAIN files)) =>
          HoldsAllInOrder(exercises', DOMAIN files)]_vars

\* two files of different names were discovered, evaluated and stored
C18_Witness ==
    /\ pc = "constructed"
    /\ DOMAIN files = {EXERCISES_DIR \o <<"t1", "a.py">>, EXERCISES_DIR \o <<"t1", "b.py">>}
    /\ Len(exercises) = 2
    /\ exercises[1].path = EXERCISES_DIR \o <<"t1", "a.py">>
    /\ exercises[2].path = EXERCISES_DIR \o <<"t1", "b.py">>

\* C18 as stated: the same for every set of discovered files, also when two
\* topics hold a file of the same name
C18_AnyNames ==
    [][InitStoresAll => HoldsAllInOrder(exercises', DOMAIN files)]_vars

\* C19: toggle_hint negates show_hint and changes nothing else (cursor,
\* entries, counters, completed_flag, pending argument, watcher, persisted
\* last exercise, files); toggling twice gives back the state it started from.
C19_ToggleOnlyHint ==
    [][ToggleHint =>
          /\ show_hint' = ~show_hint
          /\ UNCHANGED <<exercises, current_exercise, current_exercise_state,
                         arg_exercise, completed_count, completed_flag, watcher,
                         lasttime, watched, files, applied, finished, backups, cli>>
          /\ toggle_hint(toggle_hint(Self)) = Self]_vars

\* the hint is shown in a session that has completed its exercises: only a
\* toggle_hint can have set it
C19_Witness ==
    /\ pc = "ready"
    /\ show_hint
    /\ completed_flag
    /\ Len(exercises) = 2

\* C20: an exercise with a validation test has its direct run started on every
\* evaluation, however the validation run ended, and when that direct run
\* exits non-zero the entry's error is the direct run's own error.
C20_DirectAlwaysRun ==
    \A i \in 1..Len(exercises) :
        HasValidationTest(exercises[i].path) =>
            /\ applied[exercises[i].name].ev.ran_direct
            /\ (ContentAt(i).direct.kind = "exit" /\ ContentAt(i).direct.rc # 0) =>
                  exercises[i].error =
                      SomeError(_format_output(
                          IF ContentAt(i).direct.err # <<>>
                          THEN ContentAt(i).direct.err
                          ELSE ContentAt(i).direct.out))

\* reset_exercise finds no backup of the current exercise
ResetMissing ==
    /\ ResetExercise
    /\ current_exercise # None
    /\ BackupOf(current_exercise) \notin DOMAIN backups

\* get_solution finds no solution of the current exercise
SolutionMissing ==
    /\ GetSolution
    /\ current_exercise # None
    /\ PACKAGE_DIR \o <<"solutions">> \o RelativeTo(current_exercise, EXERCISES_DIR)
          \notin DOMAIN RootSolutions

\* reset_exercise_by_path finds no backup of an existing exercise
ResetByPathMissing ==
    \E path \in ResetPaths :
        /\ ResetExerciseByPath(path)
        /\ Exists(Resolve(path))
        /\ IsUnder(Resolve(path), EXERCISES_DIR)
        /\ BackupOf(Resolve(path)) \notin DOMAIN backups

\* print_root_solution finds no solution file
PrintMissing ==
    \E path \in CliPaths \ {<<>>}, source \in Sources :
        /\ PrintRootSolution(path, source)
        /\ ~Exists(SolutionRoot(path, source))

\* the files and the tracked state are as before
StateKept ==
    UNCHANGED <<files, solutions, exercises, current_exercise,
                current_exercise_state, arg_exercise, completed_count,
                completed_flag, lasttime, applied>>

EvaluatingOperation ==
    FinishInit \/ UpdateExerciseOutput \/ FinishCheckAll \/ NextExercise \/ ResetExercise

\* run_and_print ran a file that exited non-zero, timed out or did not start
PrintedFailure ==
    \E path \in CliPaths, source \in Sources, type \in {"d", "s", "x"} :
        /\ RunAndPrint(path, source, type)
        /\ RunRequested(path, source, type).kind = "result"
        /\ RunRequested(path, source, type).ev.returncode # 0

\* an entry holds a failed evaluation as data
RecordedFailure(e) ==
    /\ e.status = "PENDING"
    /\ e.error.set
    /\ applied[e.name].ev.result.returncode # 0

OperationEnded ==
    \/ EvaluatingOperation
    \/ GetSolution
    \/ \E path \in ResetPaths : ResetExerciseByPath(path)
    \/ \E path \in CliPaths, source \in Sources : PrintRootSolution(path, source)
    \/ \E path \in CliPaths, source \in Sources, type \in {"d", "s", "x"} :
          RunAndPrint(path, source, type)

C21_StickyFlag ==
    [][(completed_flag /\ ~completed_flag') =>
          /\ ResetExercise
          /\ CountDone(exercises') < Len(exercises')]_vars

\* the identity of an entry: what the discovery scan gave it
Identity(e) == [name |-> e.name, path |-> e.path, hint |-> e.hint]

\* C22: once the constructor has stored the discovered exercises, no step of
\* update_exercise_output, check_all_exercises, next_exercise, reset_exercise
\* or toggle_hint adds, removes or reorders entries or changes an entry's
\* name, path or hint.
C22_EntriesFixed ==
    [][InitOver =>
          /\ Len(exercises') = Len(exercises)
          /\ \A i \in 1..Len(exercises) :
                Identity(exercises'[i]) = Identity(exercises[i])]_vars

\* two entries, the first of which went from DONE to PENDING after the
\* completion banner, in a session that advanced with a watcher and showed a hint
C22_Witness ==
    /\ pc = "ready"
    /\ Len(exercises) = 2
    /\ finished >= 1
    /\ exercises[1].status = "PENDING"
    /\ watched # None
    /\ show_hint

\* a worker of the batch has not finished
WorkerRunning == \E i \in 1..Len(futures) : futures[i].state = "running"

\* the fields the batch's caller and the other operations write
Tracked ==
    <<exercises, current_exercise, current_exercise_state, completed_count,
      completed_flag, applied>>

\* C23: no step of a worker thread writes the exercise map, the cursor or the
\* progress counters, and no step taken while a worker of the batch is still
\* running writes them either: the results of a batch are applied by the
\* initiating thread, all in one go, after every worker has finished.
C23_AppliedAfterJoin ==
    [][/\ (\E i \in 1..Len(futures) : WorkerFinish(i)) => UNCHANGED Tracked
       /\ WorkerRunning => UNCHANGED Tracked
       /\ exercises' # exercises =>
             /\ pc \in {"init_apply", "check_apply", "ready"}
             /\ \A i \in 1..Len(futures) : futures[i].state = "collected"]_vars

\* a batch check under way: a result that differs from the entry's status has
\* been collected and is not applied, while another worker is still running
C23_Witness ==
    /\ pc = "check_all"
    /\ WorkerRunning
    /\ \E k \in 1..Len(result_map) :
          /\ EntryIndex(exercises, NameOf(result_map[k].path)) # 0
          /\ exercises[EntryIndex(exercises, NameOf(result_map[k].path))].status
                # StatusOf(result_map[k].result)

\* C24: a step of a constructed manager that changes current_exercise while a
\* watcher is attached leaves the watcher restarted on the new
\* current_exercise; this covers next_exercise and an update_exercise_output
\* that adopts a pending arg_exercise.
C24_WatcherFollows ==
    [][(InitOver /\ watcher /\ current_exercise' # current_exercise) =>
          watched' = current_exercise']_vars

\* the entry of the exercise at path p holds the status, output and error an
\* evaluation of the file at p gives
ReflectsFile(exs, fs, p) ==
    /\ EntryIndex(exs, NameOf(p)) # 0
    /\ ~run_exercise(p, ContentOf(fs, p)).raised
    /\ exs[EntryIndex(exs, NameOf(p))] =
          _update_exercise_status(
              exs, NameOf(p),
              run_exercise(p, ContentOf(fs, p)).result)[EntryIndex(exs, NameOf(p))]

\* reset_exercise restored the current exercise's file and returned
ResetRestored ==
    /\ ResetExercise
    /\ current_exercise # None
    /\ BackupOf(current_exercise) \in DOMAIN backups
    /\ raised' = "none"

\* C25: when reset_exercise or reset_exercise_by_path has restored a file from
\* its backup and returned, the entry of that exercise holds the status,
\* output and error of an evaluation of the restored content.
C25_ResetReevaluates ==
    [][/\ ResetRestored => ReflectsFile(exercises', files', current_exercise)
       /\ \A path \in ResetPaths :
             (ResetExerciseByPath(path) /\ raised' = "none") =>
                 ReflectsFile(exercises', files', Resolve(path))]_vars

\* a line of the short test summary
IsSummaryLine(line) == line # <<>> /\ line[1] \in {"FAILED ", "ERROR "}

\* an assertion-detail line and a source-location line, as the extraction
\* recognises them
IsDetailLine(line) ==
    \/ Strip(line) # <<>> /\ Strip(line)[1] = "E " /\ HasTok(line, "AssertionError:")
    \/ HasTok(line, "File \"") /\ HasTok(line, "exercises/") /\ HasTok(line, ", line ")

\* a line of the message that is neither an assertion detail nor a location
IsTestLine(line) == line = <<>> \/ line[1] \notin {"  ", "  at "}

\* the part of a summary line that names what failed
SummaryHead(line) ==
    IF HasTok(line, " - ") THEN SubSeq(line, 2, IndexOf(line, " - ") - 1) ELSE Tail(line)

\* <test-name>: the start of the message line of a summary line that names a test
TestLabel(line) ==
    SubSeq(SummaryHead(line),
           LastIndexFrom(SummaryHead(line), "::", Len(SummaryHead(line))) + 1,
           Len(SummaryHead(line))) \o <<": ">>

\* the message covers the summary lines of the output, one line each, in order
CoversSummary(out, msg) ==
    LET summary == SelectSeq(SplitOn(out, "\n"), IsSummaryLine)
        tests   == IF msg = GenericTestsFailed THEN <<>>
                   ELSE SelectSeq(SplitOn(msg, "\n"), IsTestLine)
    IN  /\ Len(tests) = Len(summary)
        /\ \A k \in 1..Len(summary) :
              HasTok(SummaryHead(summary[k]), "::") =>
                  /\ Len(tests[k]) >= Len(TestLabel(summary[k]))
                  /\ SubSeq(tests[k], 1, Len(TestLabel(summary[k])))
                        = TestLabel(summary[k])

\* the evaluation applied to entry i extracted its message from the output of
\* a failed validation run
Extracted(i) ==
    /\ HasValidationTest(exercises[i].path)
    /\ ContentAt(i).validation.kind = "exit"
    /\ ContentAt(i).validation.rc # 0
    /\ DirectSucceeded(ContentAt(i))

\* C26: the message extracted from a validation output has exactly one line
\* for each FAILED or ERROR summary line, in input order, starting with the
\* test's name when the line names a test; it is the generic fallback only
\* when the output has no summary line, no assertion-detail line and no
\* source-location line; and it is never empty.
C26_ExtractionCovers ==
    \A i \in 1..Len(exercises) :
        Extracted(i) =>
            /\ CoversSummary(ContentAt(i).validation.out, ResultAt(i).stderr)
            /\ ResultAt(i).stderr = GenericTestsFailed =>
                  \A k \in 1..Len(SplitOn(ContentAt(i).validation.out, "\n")) :
                      /\ ~IsSummaryLine(SplitOn(ContentAt(i).validation.out, "\n")[k])
                      /\ ~IsDetailLine(SplitOn(ContentAt(i).validation.out, "\n")[k])
            /\ ResultAt(i).stderr # <<>>

\* current_exercise_state is the status stored under the cursor's name
StateMirrorsCursor ==
    (current_exercise # None /\ EntryIndex(exercises, NameOf(current_exercise)) # 0) =>
        current_exercise_state =
            exercises[EntryIndex(exercises, NameOf(current_exercise))].status

\* C27: when the constructor, update_exercise_output, check_all_exercises,
\* next_exercise or reset_exercise returns, current_exercise_state is the
\* status stored for the current exercise.
C27_StateMirrorsCursor ==
    [][StatusOperationReturned => StateMirrorsCursor']_vars

\* C28: when a next_exercise that advances has returned, the path given to
\* set_lasttime_exercise is current_exercise, and so is the path the watcher
\* was restarted on when one is attached, whatever arg_exercise held.
C28_CursorPersistedWatched ==
    [][(NextExercise /\ CursorBeforeLast /\ raised' = "none") =>
          /\ lasttime' = current_exercise'
          /\ watcher => watched' = current_exercise']_vars

\* check_all_exercises is under way, from its call to its return
CheckingAll == CheckAllExercises \/ pc \in {"check_all", "check_apply"}

\* C29: update_exercise_output overwrites the status, output and error of the
\* current exercise's entry with those of an evaluation of its file and leaves
\* every other entry, show_hint and (when arg_exercise is unset) the cursor
\* unchanged; check_all_exercises leaves the cursor, show_hint and
\* completed_flag unchanged.
C29_FrameOfReevaluation ==
    [][/\ UpdateExerciseOutput =>
             /\ show_hint' = show_hint
             /\ arg_exercise = None => current_exercise' = current_exercise
             /\ \A i \in 1..Len(exercises) :
                   exercises[i].name # NameOf(current_exercise') =>
                       exercises'[i] = exercises[i]
             /\ (raised' = "none" /\ current_exercise' # None) =>
                   ReflectsFile(exercises', files', current_exercise')
       /\ CheckingAll => UNCHANGED <<current_exercise, show_hint, completed_flag>>]_vars

\* two entries with the hint shown: a re-evaluation printed the completion
\* banner, and a later batch check found an entry PENDING and left
\* current_exercise_state behind
C29_Witness ==
    /\ pc = "ready"
    /\ Len(exercises) = 2
    /\ show_hint
    /\ completed_flag
    /\ exercises[1].status # exercises[2].status
    /\ ~StateMirrorsCursor

\* C30: every PENDING entry carries a non-empty diagnostic: whichever way the
\* evaluation ended with a non-zero exit code (direct failure, timeout, spawn
\* fault, validation failure), the entry's error is set and its text is not
\* empty.
C30_DiagnosticNonEmpty ==
    \A i \in 1..Len(exercises) :
        exercises[i].status = "PENDING" =>
            /\ exercises[i].error.set
            /\ exercises[i].error.text # <<>>

====
